---- MODULE Spec2Model ----
(***************************************************************************)
(* A model of the retention-offer bandit of ExitZero                       *)
(* (src/src/lib/q-learning-bandit.ts): the QLearningBandit class, its      *)
(* fields and its public methods; and of the route that feeds it           *)
(* (src/src/app/api/cancel-intent/route.ts): the POST and PUT handlers,    *)
(* the Redis offer cache and the offer_responses table; of the copy        *)
(* composer the route calls (src/src/lib/ai-copy-composer.ts); of the      *)
(* Stripe webhook route (src/unnamed/part_005); and of the churn-audit     *)
(* route (src/src/app/api/churn-audit/route.ts).                           *)
(*                                                                         *)
(* Numbers.  The code computes with JavaScript numbers.  The model keeps   *)
(* every estimate and reward as an integer count of 1/Scale, and Scale is  *)
(* chosen so that each product and each division the code performs within  *)
(* the bounds is exact: the arithmetic of the model is the arithmetic of   *)
(* the reals on the values it reaches.  Costs are whole hundredths         *)
(* (0.05 is 5), revenue is a whole number of currency units, and the       *)
(* exploration rate is an integer count of 1/EpsScale.                     *)
(*                                                                         *)
(* Objects.  qValues and actionCounts are JavaScript objects: a mapping    *)
(* together with the order of its keys (the insertion order, which         *)
(* Object.keys and the spread operator follow).                            *)
(***************************************************************************)
EXTENDS Integers, Sequences, FiniteSets, TLC

VARIABLES
    arms,          \* this.arms: the configured offers, in order
    qValues,       \* this.qValues: object arm id -> value estimate
    actionCounts,  \* this.actionCounts: object arm id -> selection count
    totalReward,   \* this.totalReward
    lastUpdated,   \* this.lastUpdated (a time)
    epsilon,       \* this.epsilon, in 1/EpsScale
    op,            \* the last call made, with its arguments
    ret,           \* what that call returned (or that it threw)
    updates,       \* history: update calls applied so far
    decays,        \* history: decayEpsilon calls made so far
    snapshot,      \* the BanditState object a caller holds on to, if any
    shared,        \* whether snapshot.lastUpdated and this.lastUpdated are
                   \* one and the same Date object
    redis,         \* the offer cache of the cancel-intent route: key -> value
    pc,            \* where each request to the route stands
    local,         \* the local variables of each request
    offer_responses, \* the rows of the table offer_responses
    served,        \* history: per customer, the requests that passed the rate
                   \* limit and the offers made while the keys were live
    subscription_events, \* the rows of the table subscription_events
    fetched,       \* the requests the Stripe webhook has sent to
                   \* /api/cancel-intent
    churn_audits   \* the rows of the table churn_audits: audit id -> row

\* what the routes other than cancel-intent keep
otherRoutes == <<subscription_events, fetched, churn_audits>>

routeVars == <<redis, pc, local, offer_responses, served, otherRoutes>>

vars == <<arms, qValues, actionCounts, totalReward, lastUpdated, epsilon,
          op, ret, updates, decays, snapshot, shared, routeVars>>

---------------------------------------------------------------------------
(* Bounds of the model. *)

\* how many of the default offers a configuration may hold
NArms == 2
\* update calls applied in one behaviour
MaxUpdates == 2
\* decayEpsilon calls in one behaviour
MaxDecays == 1
\* update calls in one behaviour of the long run of updates
MaxCalls == 1000
\* PUT requests to the cancel-intent route that are in flight together
MaxPuts == 2
\* the POST requests to the cancel-intent route that are in flight together
MaxPosts == 2

---------------------------------------------------------------------------
(* Numbers. *)

RECURSIVE Pow(_, _)
Pow(b, n) == IF n = 0 THEN 1 ELSE b * Pow(b, n - 1)

\* alpha = AlphaNum / AlphaDen, the constructor's default learning rate
AlphaNum == 1
AlphaDen == 10
\* the constructor's default exploration rate, in hundredths
EpsilonDefault == 10
\* the floor of decayEpsilon, in hundredths
EpsilonFloor == 1
\* generateCopy's threshold on a provider's confidence, in hundredths
ConfidenceThreshold == 80
\* the confidence of the template copy, in hundredths
FallbackConfidence == 60
\* the rate limit: parseInt(rateLimit) > 10
RateLimitMax == 10

\* 1.0 as an estimate or a reward: rewards are whole thousandths, and each
\* update divides by AlphaDen once (a stored snapshot has seen one update more)
Scale == 1000 * Pow(AlphaDen, MaxUpdates + 1)
\* 1.0 as an exploration rate: each decay divides by at most 100
EpsScale == 100 * Pow(100, MaxDecays)

\* p hundredths as a reward
Hundredths(p) == p * (Scale \div 100)
\* p thousandths as a reward
Thousandths(p) == p * (Scale \div 1000)

Max(a, b) == IF a > b THEN a ELSE b
Min(a, b) == IF a < b THEN a ELSE b

---------------------------------------------------------------------------
(* JavaScript objects with string keys and number values. *)

KeySet(o) == {o.keys[i] : i \in 1..Len(o.keys)}

EmptyObject == [keys |-> <<>>, val |-> [k \in {} |-> 0]]

hasOwnProperty(o, k) == k \in KeySet(o)

\* a slip: v is written to every key of the object
SetPropertyEvery(o, k, v) ==
    [keys |-> IF k \in KeySet(o) THEN o.keys ELSE Append(o.keys, k),
     val  |-> [x \in KeySet(o) \cup {k} |-> v]]

\* o[k] = v: a new key goes last, an existing key keeps its place
SetProperty(o, k, v) ==
    [keys |-> IF hasOwnProperty(o, k) THEN o.keys ELSE Append(o.keys, k),
     val  |-> [x \in KeySet(o) \cup {k} |-> IF x = k THEN v ELSE o.val[x]]]

\* { ...o }: a new object with o's own keys in o's order
Spread(o) == [keys |-> o.keys, val |-> [k \in KeySet(o) |-> o.val[k]]]

---------------------------------------------------------------------------
(* The offers. *)

DEFAULT_OFFERS ==
    << [id |-> "discount_10",  type |-> "discount",  value |-> 10, cost |-> 10],
       [id |-> "discount_20",  type |-> "discount",  value |-> 20, cost |-> 20],
       [id |-> "pause_30",     type |-> "pause",     value |-> 30, cost |-> 5],
       [id |-> "pause_60",     type |-> "pause",     value |-> 60, cost |-> 10],
       [id |-> "extension_14", type |-> "extension", value |-> 14, cost |-> 2],
       [id |-> "swap_plan",    type |-> "swap",      value |-> 0,  cost |-> 15] >>

\* the arm lists a bandit is constructed over: the first n default offers
ArmLists == {SubSeq(DEFAULT_OFFERS, 1, n) : n \in 1..NArms}

\* an id no configuration knows
UnknownId == "unknown_arm"

\* the ids callers pass
Ids == {DEFAULT_OFFERS[i].id : i \in 1..NArms} \cup {UnknownId}

ArmIds(a) == {a[i].id : i \in 1..Len(a)}

---------------------------------------------------------------------------
(* The requests to the cancel-intent route (src/app/api/cancel-intent), the *)
(* Redis keys it uses and the state it keeps outside the bandit.            *)

\* the POST and the PUT requests in flight, told apart by n
Posts == [method : {"POST"}, n : 1..MaxPosts]
Puts == [method : {"PUT"}, n : 1..MaxPuts]
\* the call of copyComposer.generateCopy that is followed on its own
Composer == [method |-> "generateCopy", n |-> 1]
\* the request to the Stripe webhook route that is followed
Webhook == [method |-> "POST /api/webhooks/stripe", n |-> 1]
\* the requests to the churn-audit route that are followed
Audits == [method : {"POST /api/churn-audit"}, n : {1, 2}]
Requests == Posts \cup Puts \cup {Composer, Webhook} \cup Audits
FirstPost == [method |-> "POST", n |-> 1]

Customers == {"cus_A", "cus_B"}

\* Date.now() in the decimal digits of the offer id: each POST reads its own
Stamps == <<"1", "2", "3", "4", "5">>

\* `offer_${Date.now()}_${body.userId}`
offerIdOf(p, userId) == "offer_" \o Stamps[p.n] \o "_" \o userId
\* an offer id that no POST issued
NeverIssued == "offer_0_nobody"

\* `rate_limit:${body.customerId}`
rateLimitKey(customerId) == "rate_limit:" \o customerId
\* `recent_offer:${request.customerId}`
recentOfferKey(customerId) == "recent_offer:" \o customerId
\* `offer:${offerId}`
\* a slip: the key names the first offer, whatever offer is asked for
OfferKeyOfFirst(offerId) == "offer:" \o offerIdOf(FirstPost, "cus_A")
OfferKey(offerId) == "offer:" \o offerId

\* the user of a customer (the webhook sends the customer id as the user id)
userIdOf(customerId) == customerId

RedisKeys ==
    {rateLimitKey(c) : c \in Customers}
      \cup {recentOfferKey(c) : c \in Customers}
      \cup {OfferKey(offerIdOf(p, userIdOf(c))) : p \in Posts, c \in Customers}
      \cup {OfferKey(NeverIssued)}

\* what redis.get returns: null, or the string that was set.  A string of
\* decimal digits is written as the number it reads as, a string of JSON as
\* the object it parses to.
Null == [type |-> "null", value |-> 0]
String(v) == [type |-> "string", value |-> v]

\* rateLimit && parseInt(rateLimit) > 10
overLimit(rateLimit) == rateLimit # Null /\ rateLimit.value > RateLimitMax

\* redis.incr: a missing key counts as 0
incr(value) == IF value = Null THEN String(1) ELSE String(value.value + 1)

\* the local variables of a request that has not started
NoLocals == [body |-> Null, rateLimit |-> Null, recentOffer |-> Null,
             selectedOffer |-> Null, offerData |-> Null, reward |-> 0]

\* the requests a customer has had answered since the rate-limit key and the
\* recent-offer key were last set afresh: how many passed the rate limit, how
\* many were answered with an offer, and the mrr of the request whose offer
\* was cached last
NoneServed == [c \in Customers |-> [passed |-> 0, offers |-> 0, mrr |-> 0]]

\* no audit has been asked for
NoAudits == <<>>

\* no request has arrived
\* a request that has not arrived has no local variables
NotStarted == <<>>

InitRoute ==
    /\ redis = [k \in RedisKeys |-> Null]
    /\ pc = [r \in Requests |-> "idle"]
    /\ local = [r \in Requests |-> IF r \in Posts \cup Puts THEN NoLocals ELSE NotStarted]
    /\ offer_responses = <<>>
    /\ served = NoneServed
    /\ subscription_events = <<>>
    /\ fetched = <<>>
    /\ churn_audits = NoAudits

\* the bandit is called with no request to the route in progress
NoRequest == UNCHANGED routeVars

---------------------------------------------------------------------------
(* The constructor: the state of a bandit freshly built over an arm list. *)

RECURSIVE zeroFor(_, _)
\* arms.forEach(arm => obj[arm.id] = 0), started from obj
zeroFor(a, obj) ==
    IF a = <<>> THEN obj ELSE zeroFor(Tail(a), SetProperty(obj, Head(a).id, 0))

initQValues(a) == zeroFor(a, EmptyObject)
initActionCounts(a) == zeroFor(a, EmptyObject)

initEpsilon == EpsilonDefault * (EpsScale \div 100)

\* the caller holds no snapshot, or holds the BanditState object state
NoSnapshot == <<>>
Held(state) == <<state>>

Void == [kind |-> "void", value |-> 0]
Value(v) == [kind |-> "value", value |-> v]
Throw(e) == [kind |-> "throw", value |-> e]

Init ==
    /\ arms \in ArmLists
    /\ qValues = initQValues(arms)
    /\ actionCounts = initActionCounts(arms)
    /\ totalReward = 0
    /\ lastUpdated = 0
    /\ epsilon = initEpsilon
    /\ op = [name |-> "constructor"]
    /\ ret = Void
    /\ updates = 0
    /\ decays = 0
    /\ snapshot = NoSnapshot
    /\ shared = FALSE
    /\ InitRoute

---------------------------------------------------------------------------
(* update(actionId, reward) *)

RECURSIVE SumSeq(_, _)
\* values.reduce((a, b) => a + b, 0) over the keys of o, from the i-th on
SumSeq(o, i) == IF i > Len(o.keys) THEN 0 ELSE o.val[o.keys[i]] + SumSeq(o, i + 1)

\* the rewards callers pass: 0, 1.0, a declined discount_10 (-0.11), and 2.0,
\* which no calculateReward returns
Rewards == {Scale, 0 - Hundredths(11), 2 * Scale}

\* a slip: the old estimate is not subtracted from the reward
newQNoError(oldQ, reward) == oldQ + (AlphaNum * reward) \div AlphaDen

\* oldQ + this.alpha * (reward - oldQ)
newQ(oldQ, reward) == oldQ + (AlphaNum * (reward - oldQ)) \div AlphaDen

\* a slip: the count is written back as it was
incrementLost(n) == n

\* this.actionCounts[actionId]++
increment(n) == n + 1

\* new Date(): the clock shows how many times update has read it
Clock == updates + 1

\* a slip: the guard on unknown ids is left out, and the arithmetic on the
\* missing entries yields NaN
updateUnguarded(actionId, reward) ==
    /\ updates < MaxUpdates
    /\ updates' = updates + 1
    /\ op' = [name |-> "update", actionId |-> actionId, reward |-> reward]
    /\ ret' = Void
    /\ qValues' = SetProperty(qValues, actionId,
                              IF hasOwnProperty(qValues, actionId)
                              THEN newQ(qValues.val[actionId], reward)
                              ELSE "NaN")
    /\ actionCounts' = SetProperty(actionCounts, actionId,
                                   IF hasOwnProperty(actionCounts, actionId)
                                   THEN increment(actionCounts.val[actionId])
                                   ELSE "NaN")
    /\ totalReward' = totalReward + reward
    /\ lastUpdated' = Clock
    /\ shared' = FALSE
    /\ UNCHANGED <<arms, epsilon, decays, snapshot>>

update(actionId, reward) ==
    /\ op' = [name |-> "update", actionId |-> actionId, reward |-> reward]
    /\ ret' = Void
    /\ IF ~hasOwnProperty(qValues, actionId)
       THEN \* console.warn, return
            UNCHANGED <<qValues, actionCounts, totalReward, lastUpdated, updates,
                        shared>>
       ELSE /\ updates < MaxUpdates
            /\ updates' = updates + 1
            /\ qValues' = SetProperty(qValues, actionId,
                                      newQ(qValues.val[actionId], reward))
            /\ actionCounts' = SetProperty(actionCounts, actionId,
                                           increment(actionCounts.val[actionId]))
            /\ totalReward' = totalReward + reward
            \* new Date(): an object no snapshot refers to
            /\ lastUpdated' = Clock
            /\ shared' = FALSE
    /\ UNCHANGED <<arms, epsilon, decays, snapshot>>

---------------------------------------------------------------------------
(* decayEpsilon(decayRate): the rate is rate[1] / rate[2] *)

\* the default 0.99, and a rate above 1
DecayRates == {<<99, 100>>, <<2, 1>>}

\* Math.max(0.01, this.epsilon * decayRate)
\* a slip: the floor is left out
decayedUnfloored(eps, rate) == (eps \div rate[2]) * rate[1]

decayed(eps, rate) ==
    Max(EpsilonFloor * (EpsScale \div 100), (eps \div rate[2]) * rate[1])

decayEpsilon(rate) ==
    /\ decays < MaxDecays
    /\ decays' = decays + 1
    /\ epsilon' = decayed(epsilon, rate)
    /\ op' = [name |-> "decayEpsilon", decayRate |-> rate]
    /\ ret' = Void
    /\ UNCHANGED <<arms, qValues, actionCounts, totalReward, lastUpdated,
                   updates, snapshot, shared>>

---------------------------------------------------------------------------
(* calculateReward(actionId, userResponse, mrrValue, offerCost):            *)
(* mrrValue in whole currency units, offerCost in hundredths.              *)

Responses == {"accepted", "declined", "ignored"}

\* this.arms.find(arm => arm.id === actionId): the index of the first match,
\* 0 when there is none
find(a, id) ==
    IF \E i \in 1..Len(a) : a[i].id = id
    THEN CHOOSE i \in 1..Len(a) : a[i].id = id /\ \A j \in 1..(i - 1) : a[j].id # id
    ELSE 0

\* the switch on userResponse
baseReward(action, userResponse, mrrValue) ==
    CASE userResponse = "accepted" -> mrrValue * Hundredths(100 - action.cost)
      [] userResponse = "declined" -> 0 - Hundredths(10)
      [] OTHER -> 0

\* baseReward - (offerCost * 0.1)
costAdjustedReward(base, offerCost) == base - Thousandths(offerCost)

\* a slip: only the lower bound is enforced
clampBelow(x) == Max(0 - Scale, x)

\* Math.max(-1, Math.min(1, x))
clamp(x) == Max(0 - Scale, Min(Scale, x))

calculateReward(actionId, userResponse, mrrValue, offerCost) ==
    LET i == find(arms, actionId) IN
    IF i = 0 THEN 0
    ELSE clamp(costAdjustedReward(baseReward(arms[i], userResponse, mrrValue),
                                  offerCost))

CallCalculateReward(actionId, userResponse, mrrValue, offerCost) ==
    /\ op' = [name |-> "calculateReward", actionId |-> actionId,
              userResponse |-> userResponse, mrrValue |-> mrrValue,
              offerCost |-> offerCost]
    /\ ret' = Value(calculateReward(actionId, userResponse, mrrValue, offerCost))
    /\ UNCHANGED <<arms, qValues, actionCounts, totalReward, lastUpdated,
                   epsilon, updates, decays, snapshot, shared>>

---------------------------------------------------------------------------
(* selectAction() *)

\* a slip: the comparison is turned around
betterReversed(q, a, b) == IF q.val[a] < q.val[b] THEN a ELSE b

\* the reduce callback: this.qValues[a] > this.qValues[b] ? a : b
better(q, a, b) == IF q.val[a] > q.val[b] THEN a ELSE b

RECURSIVE reduceFrom(_, _, _)
\* the reduce over Object.keys(this.qValues), with acc the accumulator and the
\* i-th key the next one
reduceFrom(q, acc, i) ==
    IF i > Len(q.keys) THEN acc ELSE reduceFrom(q, better(q, acc, q.keys[i]), i + 1)

Undefined == [type |-> "undefined", value |-> 0]
Offer(arm) == [type |-> "offer", value |-> arm]

\* this.arms[i], with i counted from 0
armAt(a, i) == IF i + 1 \in 1..Len(a) THEN Offer(a[i + 1]) ELSE Undefined

\* shouldExplore is Math.random() < this.epsilon, randomIndex is
\* Math.floor(Math.random() * this.arms.length)
selectAction(shouldExplore, randomIndex) ==
    IF shouldExplore
    THEN Value(armAt(arms, randomIndex))
    ELSE IF qValues.keys = <<>>
         THEN \* reduce of an empty array with no initial value
              Throw("TypeError")
         ELSE LET bestArmId == reduceFrom(qValues, qValues.keys[1], 2)
                  i == find(arms, bestArmId)
              IN  Value(IF i # 0 THEN Offer(arms[i]) ELSE armAt(arms, 0))

\* Math.random() lies in [0, 1)
CanExplore == epsilon > 0
CanExploit == epsilon < EpsScale
RandomIndexes == IF arms = <<>> THEN {0} ELSE 0..(Len(arms) - 1)

\* a slip: selecting stamps lastUpdated
CallSelectActionStamping ==
    /\ \E shouldExplore \in BOOLEAN :
         \E randomIndex \in (IF shouldExplore THEN RandomIndexes ELSE {0}) :
           /\ IF shouldExplore THEN CanExplore ELSE CanExploit
           /\ op' = [name |-> "selectAction", shouldExplore |-> shouldExplore,
                     randomIndex |-> randomIndex]
           /\ ret' = selectAction(shouldExplore, randomIndex)
    /\ lastUpdated' = Clock
    /\ UNCHANGED <<arms, qValues, actionCounts, totalReward,
                   epsilon, updates, decays, snapshot, shared>>

CallSelectAction ==
    /\ \E shouldExplore \in BOOLEAN :
         \E randomIndex \in (IF shouldExplore THEN RandomIndexes ELSE {0}) :
           /\ IF shouldExplore THEN CanExplore ELSE CanExploit
           /\ op' = [name |-> "selectAction", shouldExplore |-> shouldExplore,
                     randomIndex |-> randomIndex]
           /\ ret' = selectAction(shouldExplore, randomIndex)
    /\ UNCHANGED <<arms, qValues, actionCounts, totalReward, lastUpdated,
                   epsilon, updates, decays, snapshot, shared>>

---------------------------------------------------------------------------
(* getState() and loadState(state) *)

\* a slip: the cumulative reward is not copied into the snapshot
getStateNoReward ==
    [qValues |-> Spread(qValues), actionCounts |-> Spread(actionCounts),
     totalReward |-> 0, lastUpdated |-> lastUpdated]

getState ==
    [qValues |-> Spread(qValues), actionCounts |-> Spread(actionCounts),
     totalReward |-> totalReward, lastUpdated |-> lastUpdated]

CallGetState ==
    /\ op' = [name |-> "getState"]
    /\ ret' = Value(getState)
    /\ UNCHANGED <<arms, qValues, actionCounts, totalReward, lastUpdated,
                   epsilon, updates, decays, snapshot, shared>>

Reverse(a) == [i \in 1..Len(a) |-> a[Len(a) + 1 - i]]

\* the arm lists of the bandits whose snapshots a state store may hold: no
\* arms, the configurations of ArmLists, and the longest one in another order
SnapshotArmLists ==
    {<<>>, Reverse(SubSeq(DEFAULT_OFFERS, 1, NArms))} \cup ArmLists

\* getState() of a bandit freshly constructed over a
freshSnapshot(a) ==
    [qValues |-> initQValues(a), actionCounts |-> initActionCounts(a),
     totalReward |-> 0, lastUpdated |-> 0]

\* getState() of a bandit constructed over a, after update(a[1].id, 1.0)
warmSnapshot(a) ==
    [qValues |-> SetProperty(initQValues(a), a[1].id, newQ(0, Scale)),
     actionCounts |-> SetProperty(initActionCounts(a), a[1].id, increment(0)),
     totalReward |-> Scale, lastUpdated |-> 1]

\* what the state store holds
StoredSnapshots ==
    {freshSnapshot(a) : a \in SnapshotArmLists}
    \cup {warmSnapshot(SubSeq(DEFAULT_OFFERS, 1, NArms))}

\* the snapshots a caller can pass to loadState: the one getState() has just
\* returned, and those of the state store
Snapshots ==
    (IF op.name = "getState" THEN {ret.value} ELSE {}) \cup StoredSnapshots

\* a slip: the counts of the snapshot are not taken over
loadStateKeepingCounts(state) ==
    /\ qValues' = Spread(state.qValues)
    /\ totalReward' = state.totalReward
    /\ lastUpdated' = state.lastUpdated
    /\ shared' \in (IF op.name = "getState" /\ state = ret.value
                    THEN {shared} ELSE {})
                   \cup (IF state \in StoredSnapshots THEN {FALSE} ELSE {})
    /\ op' = [name |-> "loadState", state |-> state]
    /\ ret' = Void
    /\ UNCHANGED <<arms, actionCounts, epsilon, updates, decays, snapshot>>

loadState(state) ==
    /\ qValues' = Spread(state.qValues)
    /\ actionCounts' = Spread(state.actionCounts)
    /\ totalReward' = state.totalReward
    /\ lastUpdated' = state.lastUpdated
    \* state.lastUpdated is this.lastUpdated itself when state is what
    \* getState() has just returned, and an object of its own when state comes
    \* from the state store
    /\ shared' \in (IF op.name = "getState" /\ state = ret.value
                    THEN {shared} ELSE {})
                   \cup (IF state \in StoredSnapshots THEN {FALSE} ELSE {})
    /\ op' = [name |-> "loadState", state |-> state]
    /\ ret' = Void
    /\ UNCHANGED <<arms, epsilon, updates, decays, snapshot>>

\* b2 = new QLearningBandit(arms); b2.loadState(state), with state what
\* getState() has just returned on this bandit and arms its arm list: from here
\* on the variables are the fields of b2
Restore ==
    /\ op.name = "getState"
    /\ arms' = arms
    /\ epsilon' = initEpsilon
    /\ qValues' = Spread(ret.value.qValues)
    /\ actionCounts' = Spread(ret.value.actionCounts)
    /\ totalReward' = ret.value.totalReward
    /\ lastUpdated' = ret.value.lastUpdated
    /\ op' = [name |-> "restore", state |-> ret.value]
    /\ ret' = Void
    /\ UNCHANGED <<updates, decays, snapshot, shared>>

---------------------------------------------------------------------------
(* What a caller does with the object getState() returned.  Its qValues and *)
(* actionCounts are objects of their own (the spreads of lines 131-132),    *)
(* totalReward is a number, and lastUpdated is this.lastUpdated itself      *)
(* (line 134).                                                              *)

\* const snapshot = bandit.getState(): the call has just returned
KeepSnapshot ==
    /\ op.name = "getState"
    /\ snapshot' = Held(ret.value)
    /\ shared' = TRUE
    /\ UNCHANGED <<arms, qValues, actionCounts, totalReward, lastUpdated,
                   epsilon, op, ret, updates, decays>>

\* the values a caller writes into a snapshot, and the time it sets
SnapshotNumbers == {7}
SnapshotTimes == {0}

\* snapshot.qValues[k] = v
SnapshotSetQValue(k, v) ==
    /\ snapshot # NoSnapshot
    /\ snapshot' = Held([snapshot[1] EXCEPT !.qValues = SetProperty(@, k, v)])
    /\ op' = [name |-> "snapshot.qValues", key |-> k, value |-> v]
    /\ ret' = Void
    /\ UNCHANGED <<arms, qValues, actionCounts, totalReward, lastUpdated,
                   epsilon, updates, decays, shared>>

\* snapshot.actionCounts[k] = v
SnapshotSetCount(k, v) ==
    /\ snapshot # NoSnapshot
    /\ snapshot' = Held([snapshot[1] EXCEPT
                           !.actionCounts = SetProperty(@, k, v)])
    /\ op' = [name |-> "snapshot.actionCounts", key |-> k, value |-> v]
    /\ ret' = Void
    /\ UNCHANGED <<arms, qValues, actionCounts, totalReward, lastUpdated,
                   epsilon, updates, decays, shared>>

\* snapshot.totalReward = v
SnapshotSetTotalReward(v) ==
    /\ snapshot # NoSnapshot
    /\ snapshot' = Held([snapshot[1] EXCEPT !.totalReward = v])
    /\ op' = [name |-> "snapshot.totalReward", value |-> v]
    /\ ret' = Void
    /\ UNCHANGED <<arms, qValues, actionCounts, totalReward, lastUpdated,
                   epsilon, updates, decays, shared>>

\* snapshot.lastUpdated.setTime(t): the Date object changes, for everyone who
\* refers to it
SnapshotSetTime(t) ==
    /\ snapshot # NoSnapshot
    /\ snapshot' = Held([snapshot[1] EXCEPT !.lastUpdated = t])
    /\ lastUpdated' = IF shared THEN t ELSE lastUpdated
    /\ op' = [name |-> "snapshot.lastUpdated.setTime", time |-> t]
    /\ ret' = Void
    /\ UNCHANGED <<arms, qValues, actionCounts, totalReward,
                   epsilon, updates, decays, shared>>

SnapshotWrites ==
    \/ \E k \in {DEFAULT_OFFERS[1].id, UnknownId}, v \in SnapshotNumbers :
         SnapshotSetQValue(k, v)
    \/ \E k \in {DEFAULT_OFFERS[1].id, UnknownId}, v \in SnapshotNumbers :
         SnapshotSetCount(k, v)
    \/ \E v \in SnapshotNumbers : SnapshotSetTotalReward(v)
    \/ \E t \in SnapshotTimes : SnapshotSetTime(t)

---------------------------------------------------------------------------
(* getMetrics() *)

RECURSIVE GCD(_, _)
GCD(a, b) == IF b = 0 THEN a ELSE GCD(b, a % b)

Abs(x) == IF x < 0 THEN 0 - x ELSE x

\* the number n / d for d > 0, in lowest terms
Quotient(n, d) ==
    LET g == GCD(Abs(n), d) IN [num |-> n \div g, den |-> d \div g]

Number(n) == [type |-> "number", value |-> n]

\* o[k] as a JavaScript value
Property(o, k) == IF hasOwnProperty(o, k) THEN Number(o.val[k]) ELSE Undefined

\* a slip: the per-arm average is not divided by the count
armPerformanceUndivided(arm) ==
    LET q == Property(qValues, arm.id)
        c == Property(actionCounts, arm.id)
    IN  [id |-> arm.id, type |-> arm.type, qValue |-> q, count |-> c,
         avgReward |-> IF c.type = "number" /\ c.value > 0
                       THEN Quotient(q.value, 1)
                       ELSE Quotient(0, 1)]

\* one entry of armPerformance
armPerformanceOf(arm) ==
    LET q == Property(qValues, arm.id)
        c == Property(actionCounts, arm.id)
    IN  [id |-> arm.id, type |-> arm.type, qValue |-> q, count |-> c,
         avgReward |-> IF c.type = "number" /\ c.value > 0
                       THEN Quotient(q.value, c.value)
                       ELSE Quotient(0, 1)]

getMetrics ==
    LET totalActions == SumSeq(actionCounts, 1) IN
    [totalActions |-> totalActions,
     avgReward |-> IF totalActions > 0 THEN Quotient(totalReward, totalActions)
                   ELSE Quotient(0, 1),
     explorationRate |-> epsilon,
     armPerformance |-> [i \in 1..Len(arms) |-> armPerformanceOf(arms[i])],
     lastUpdated |-> lastUpdated]

CallGetMetrics ==
    /\ op' = [name |-> "getMetrics"]
    /\ ret' = Value(getMetrics)
    /\ UNCHANGED <<arms, qValues, actionCounts, totalReward, lastUpdated,
                   epsilon, updates, decays, snapshot, shared>>

---------------------------------------------------------------------------
(* The handlers of the cancel-intent route.  A handler runs from one await  *)
(* to the next without interruption; each action is one such run.          *)

banditVars == <<arms, qValues, actionCounts, totalReward, lastUpdated,
                epsilon, op, ret, updates, decays, snapshot, shared>>

\* the bodies of the POST requests of a customer: mrr in whole currency units
PostMrrValues == {5, 100}
PostBodies(customerIds) ==
    [userId : {userIdOf(c) : c \in customerIds}, customerId : customerIds,
     mrr : PostMrrValues]

\* what getUserContext finds: the tenure in days and the churn risk in
\* hundredths (0 days and 0.5 when the user is not in the database)
Tenures == {0, 30}
ChurnRisks == {50, 100}

\* the checks of shouldPresentOffer that come before the recent-offer flag
worthAnOffer(churnRisk, tenure, mrr) ==
    ~(churnRisk > 90) /\ ~(tenure < 3) /\ ~(mrr < 10)

\* a handler that has returned has no local variables any more
returned(r) == [local EXCEPT ![r] = NoLocals]

countPassed(c) == [served EXCEPT ![c].passed = @ + 1]
countOffer(c) == [served EXCEPT ![c].offers = @ + 1]
noteMrr(c, mrr) == [served EXCEPT ![c].mrr = mrr]

\* POST, to its first await: the body lacks a field and the handler returns 400
PostInvalid(p) ==
    /\ pc[p] = "idle"
    /\ pc' = [pc EXCEPT ![p] = "400"]
    /\ UNCHANGED <<banditVars, redis, local, offer_responses, served>>
    /\ UNCHANGED otherRoutes

\* POST, to its first await: redis.get(rateLimitKey) reads the counter (when
\* ok is FALSE the call rejects and the catch block returns 500)
PostRateGet(p, body, ok) ==
    /\ pc[p] = "idle"
    /\ pc' = [pc EXCEPT ![p] = IF ok THEN "rateGet" ELSE "500"]
    /\ local' = IF ok
                THEN [local EXCEPT ![p].body = body,
                                   ![p].rateLimit =
                                      redis[rateLimitKey(body.customerId)]]
                ELSE returned(p)
    /\ UNCHANGED <<banditVars, redis, offer_responses, served>>
    /\ UNCHANGED otherRoutes

\* POST, from redis.get to redis.incr: 429 when the counter that was read is
\* over the limit, otherwise the counter is incremented
PostIncr(p, ok) ==
    /\ pc[p] = "rateGet"
    /\ LET customerId == local[p].body.customerId IN
       IF overLimit(local[p].rateLimit)
       THEN /\ pc' = [pc EXCEPT ![p] = "429"]
            /\ local' = returned(p)
            /\ UNCHANGED <<redis, served>>
       ELSE /\ pc' = [pc EXCEPT ![p] = IF ok THEN "incr" ELSE "500"]
            /\ redis' = IF ok
                        THEN [redis EXCEPT ![rateLimitKey(customerId)] = incr(@)]
                        ELSE redis
            /\ local' = IF ok THEN local ELSE returned(p)
            /\ served' = countPassed(customerId)
    /\ UNCHANGED <<banditVars, offer_responses>>
    /\ UNCHANGED otherRoutes

\* POST, from redis.incr to the redis.get of shouldPresentOffer: redis.expire
\* and the queries of getUserContext change nothing that is kept here; the
\* handler answers 'cancel' when the user is not worth an offer, and reads
\* the recent-offer flag otherwise
PostContext(p, tenure, churnRisk, ok) ==
    /\ pc[p] = "incr"
    /\ LET body == local[p].body IN
       IF ~ok
       THEN /\ pc' = [pc EXCEPT ![p] = "500"]
            /\ local' = returned(p)
       ELSE IF ~worthAnOffer(churnRisk, tenure, body.mrr)
       THEN /\ pc' = [pc EXCEPT ![p] = "cancel"]
            /\ local' = returned(p)
       ELSE /\ pc' = [pc EXCEPT ![p] = "flagGet"]
            /\ local' = [local EXCEPT ![p].recentOffer =
                                        redis[recentOfferKey(body.customerId)]]
    /\ UNCHANGED <<banditVars, redis, offer_responses, served>>
    /\ UNCHANGED otherRoutes

\* POST, from the redis.get of shouldPresentOffer to its redis.setEx: 'cancel'
\* when the flag that was read is set, otherwise the flag is set
PostFlag(p, ok) ==
    /\ pc[p] = "flagGet"
    /\ IF local[p].recentOffer # Null
       THEN /\ pc' = [pc EXCEPT ![p] = "cancel"]
            /\ local' = returned(p)
            /\ UNCHANGED redis
       ELSE /\ pc' = [pc EXCEPT ![p] = IF ok THEN "flagSet" ELSE "500"]
            /\ redis' = IF ok
                        THEN [redis EXCEPT
                                ![recentOfferKey(local[p].body.customerId)] =
                                   String(1)]
                        ELSE redis
            /\ local' = IF ok THEN local ELSE returned(p)
    /\ UNCHANGED <<banditVars, offer_responses, served>>
    /\ UNCHANGED otherRoutes

\* POST, from the redis.setEx of shouldPresentOffer to generateCopy:
\* bandit.selectAction()
PostSelect(p, shouldExplore, randomIndex) ==
    /\ pc[p] = "flagSet"
    /\ IF shouldExplore THEN CanExplore ELSE CanExploit
    /\ LET selectedOffer == selectAction(shouldExplore, randomIndex) IN
       /\ op' = [name |-> "selectAction", shouldExplore |-> shouldExplore,
                 randomIndex |-> randomIndex]
       /\ ret' = selectedOffer
       /\ IF selectedOffer.kind = "value" /\ selectedOffer.value.type = "offer"
          THEN /\ pc' = [pc EXCEPT ![p] = "selected"]
               /\ local' = [local EXCEPT ![p].selectedOffer =
                                           selectedOffer.value.value]
          ELSE \* selectAction throws, or selectedOffer.type throws
               /\ pc' = [pc EXCEPT ![p] = "500"]
               /\ local' = returned(p)
    /\ UNCHANGED <<arms, qValues, actionCounts, totalReward, lastUpdated,
                   epsilon, updates, decays, snapshot, shared, redis,
                   offer_responses, served>>
    /\ UNCHANGED otherRoutes

\* the JSON that POST caches for an offer: userId, customerId, offer (copy
\* and timestamp play no part in what follows)
cached(body, selectedOffer) ==
    [userId |-> body.userId, customerId |-> body.customerId,
     offer |-> selectedOffer]

\* POST, from generateCopy and logCancelIntentEvent (neither rejects) to the
\* redis.setEx that caches the offer
PostCache(p, ok) ==
    /\ pc[p] = "selected"
    /\ pc' = [pc EXCEPT ![p] = IF ok THEN "cached" ELSE "500"]
    /\ redis' = IF ok
                THEN [redis EXCEPT
                        ![OfferKey(offerIdOf(p, local[p].body.userId))] =
                           String(cached(local[p].body, local[p].selectedOffer))]
                ELSE redis
    /\ local' = IF ok THEN local ELSE returned(p)
    /\ served' = IF ok
                 THEN noteMrr(local[p].body.customerId, local[p].body.mrr)
                 ELSE served
    /\ UNCHANGED <<banditVars, offer_responses>>
    /\ UNCHANGED otherRoutes

\* POST, from the redis.setEx of the offer to the end: the response carries
\* status 'offer' and bandit.getMetrics()
PostRespond(p) ==
    /\ pc[p] = "cached"
    /\ pc' = [pc EXCEPT ![p] = "offer"]
    /\ op' = [name |-> "getMetrics"]
    /\ ret' = Value(getMetrics)
    /\ served' = countOffer(local[p].body.customerId)
    /\ local' = returned(p)
    /\ UNCHANGED <<arms, qValues, actionCounts, totalReward, lastUpdated,
                   epsilon, updates, decays, snapshot, shared, redis,
                   offer_responses>>
    /\ UNCHANGED otherRoutes

\* the bodies of the PUT requests for the offers with the given ids
PutBodies(offerIds) ==
    [offerId : offerIds, response : Responses, userId : {"user"}]

\* PUT, to its first await: the body lacks a field and the handler returns 400
PutInvalid(r) ==
    /\ pc[r] = "idle"
    /\ pc' = [pc EXCEPT ![r] = "400"]
    /\ UNCHANGED <<banditVars, redis, local, offer_responses, served>>
    /\ UNCHANGED otherRoutes

\* PUT, to its first await: redis.get(`offer:${offerId}`) reads the cache
PutGet(r, body) ==
    /\ pc[r] = "idle"
    /\ pc' = [pc EXCEPT ![r] = "got"]
    /\ local' = [local EXCEPT ![r].body = body,
                              ![r].offerData = redis[OfferKey(body.offerId)]]
    /\ UNCHANGED <<banditVars, redis, offer_responses, served>>
    /\ UNCHANGED otherRoutes

\* offer.mrr of the parsed cache entry: a field, or undefined
Field(object, name) ==
    IF name \in DOMAIN object THEN Number(object[name]) ELSE Undefined

\* value || 0 for a number or undefined
OrZero(value) == IF value.type = "number" /\ value.value # 0 THEN value.value ELSE 0

\* calculateReward(offer.offer.id, response, offer.mrr || 0, offer.offer.cost)
\* for the offer JSON.parse(offerData)
rewardOf(offerData, response) ==
    LET offer == offerData.value
    IN  calculateReward(offer.offer.id, response, OrZero(Field(offer, "mrr")),
                        offer.offer.cost)

\* !offerData
notFound(offerData) == offerData = Null

\* PUT, from redis.get to the insert: 404 when there was no offer, otherwise
\* calculateReward and bandit.update
PutUpdate(r) ==
    /\ pc[r] = "got"
    /\ IF notFound(local[r].offerData)
       THEN /\ pc' = [pc EXCEPT ![r] = "404"]
            /\ local' = returned(r)
            /\ UNCHANGED banditVars
       ELSE LET reward == rewardOf(local[r].offerData, local[r].body.response)
            IN  /\ update(local[r].offerData.value.offer.id, reward)
                /\ local' = [local EXCEPT ![r].reward = reward]
                /\ pc' = [pc EXCEPT ![r] = "insert"]
    /\ UNCHANGED <<redis, offer_responses, served>>
    /\ UNCHANGED otherRoutes

\* how supabase's insert ends: the row is written, the call returns an error,
\* or it throws
InsertOutcomes == {"inserted", "error", "throws"}

\* PUT, from the insert to redis.del; when the insert throws, the catch
\* block returns 500
PutInsert(r, outcome) ==
    /\ pc[r] = "insert"
    /\ pc' = [pc EXCEPT ![r] = IF outcome = "throws" THEN "500" ELSE "del"]
    /\ offer_responses' =
         IF outcome = "inserted"
         THEN Append(offer_responses,
                     [offer_id |-> local[r].body.offerId,
                      response |-> local[r].body.response,
                      reward |-> local[r].reward])
         ELSE offer_responses
    /\ local' = IF outcome = "throws" THEN returned(r) ELSE local
    /\ UNCHANGED <<banditVars, redis, served>>
    /\ UNCHANGED otherRoutes

\* PUT, from redis.del to the end: the offer leaves the cache (or the call
\* throws and the catch block returns 500)
PutDel(r, deleted) ==
    /\ pc[r] = "del"
    /\ pc' = [pc EXCEPT ![r] = IF deleted THEN "200" ELSE "500"]
    /\ redis' = IF deleted
                THEN [redis EXCEPT ![OfferKey(local[r].body.offerId)] = Null]
                ELSE redis
    /\ local' = returned(r)
    /\ UNCHANGED <<banditVars, offer_responses, served>>
    /\ UNCHANGED otherRoutes

\* the hour of setEx is over: Redis drops the offer
Expire(offerId) ==
    /\ redis[OfferKey(offerId)] # Null
    /\ redis' = [redis EXCEPT ![OfferKey(offerId)] = Null]
    /\ UNCHANGED <<banditVars, pc, local, offer_responses, served>>
    /\ UNCHANGED otherRoutes

\* const bandit = new QLearningBandit(DEFAULT_OFFERS), and no request yet
InitCancelIntent ==
    /\ arms = DEFAULT_OFFERS
    /\ qValues = initQValues(arms)
    /\ actionCounts = initActionCounts(arms)
    /\ totalReward = 0
    /\ lastUpdated = 0
    /\ epsilon = initEpsilon
    /\ op = [name |-> "constructor"]
    /\ ret = Void
    /\ updates = 0
    /\ decays = 0
    /\ snapshot = NoSnapshot
    /\ shared = FALSE
    /\ InitRoute

---------------------------------------------------------------------------
(* update over a long run.  Each update with alpha = 1/10 adds a decimal    *)
(* place to the estimate, so a run of MaxCalls updates needs numbers of any *)
(* length: a decimal is units / 10^places, and units is an integer written  *)
(* as limbs to the base Base, lowest limb first, the highest limb carrying  *)
(* the sign.                                                                *)

Base == Pow(10, 8)

RECURSIVE Carried(_, _, _, _)
\* limbs lo..hi of the integer whose limbs are a (each of any size) once the
\* carry c has gone into limb lo and on through them, and the carry that
\* leaves limb hi
Carried(a, lo, hi, c) ==
    IF lo = hi
    THEN LET t == a[lo] + c
         IN  [limbs |-> <<t % Base>>, carry |-> (t - (t % Base)) \div Base]
    ELSE LET mid == (lo + hi) \div 2
             low == Carried(a, lo, mid, c)
             high == Carried(a, mid + 1, hi, low.carry)
         IN  [limbs |-> low.limbs \o high.limbs, carry |-> high.carry]

RECURSIVE Top(_, _, _)
\* the highest of the places lo..hi where a has a limb that is not 0, or 0
Top(a, lo, hi) ==
    IF lo > hi THEN 0
    ELSE IF lo = hi THEN (IF a[lo] = 0 THEN 0 ELSE lo)
    ELSE LET mid == (lo + hi) \div 2
             high == Top(a, mid + 1, hi)
         IN  IF high # 0 THEN high ELSE Top(a, lo, mid)

\* the integer whose limbs are a (each of any size) with every limb but the
\* highest in 0..Base-1 and no zero limbs at the high end
Normal(a) ==
    IF a = <<>> THEN <<>>
    ELSE LET r == Carried(a, 1, Len(a), 0)
             all == IF r.carry = 0 THEN r.limbs ELSE Append(r.limbs, r.carry)
         IN  SubSeq(all, 1, Top(all, 1, Len(all)))

Limb(a, i) == IF i \in 1..Len(a) THEN a[i] ELSE 0

BigAdd(a, b) ==
    Normal([i \in 1..Max(Len(a), Len(b)) |-> Limb(a, i) + Limb(b, i)])
BigSub(a, b) ==
    Normal([i \in 1..Max(Len(a), Len(b)) |-> Limb(a, i) - Limb(b, i)])
\* a * k for a small whole number k >= 1
BigTimes(a, k) ==
    IF k = 1 THEN a ELSE Normal([i \in 1..Len(a) |-> a[i] * k])
\* a * 10^k: whole limbs first, then the digits within the limbs
BigShift(a, k) ==
    LET w == k \div 8
        lo == Pow(10, k % 8)
        hi == Pow(10, 8 - (k % 8))
    IN  IF k % 8 = 0
        THEN [i \in 1..(Len(a) + w) |-> Limb(a, i - w)]
        ELSE [i \in 1..(Len(a) + w + 1) |->
                (Limb(a, i - w) % hi) * lo + Limb(a, i - w - 1) \div hi]

\* the whole number n, 0 <= n < Base, as a decimal
Decimal(n) == [units |-> IF n = 0 THEN <<>> ELSE <<n>>, places |-> 0]
\* d written with p >= d.places places
Align(d, p) ==
    IF p = d.places THEN d
    ELSE [units |-> BigShift(d.units, p - d.places), places |-> p]

DecAdd(a, b) ==
    LET p == Max(a.places, b.places)
    IN  [units |-> BigAdd(Align(a, p).units, Align(b, p).units), places |-> p]
DecSub(a, b) ==
    LET p == Max(a.places, b.places)
    IN  [units |-> BigSub(Align(a, p).units, Align(b, p).units), places |-> p]
\* this.alpha * a, alpha being AlphaNum tenths
DecTimesAlpha(a) ==
    [units |-> BigTimes(a.units, AlphaNum), places |-> a.places + 1]

DecIsZero(a) == \A i \in 1..Len(a.units) : a.units[i] = 0
DecIsNegative(a) == a.units # <<>> /\ a.units[Len(a.units)] < 0
DecEq(a, b) == DecIsZero(DecSub(a, b))
DecLeq(a, b) == ~DecIsNegative(DecSub(b, a))
DecLess(a, b) == DecIsNegative(DecSub(a, b))

\* a slip: the old estimate is not subtracted from the reward
newQDecimalNoError(oldQ, reward) == DecAdd(oldQ, DecTimesAlpha(reward))

\* oldQ + this.alpha * (reward - oldQ)
newQDecimal(oldQ, reward) == DecAdd(oldQ, DecTimesAlpha(DecSub(reward, oldQ)))

\* update(actionId, reward) on decimal estimates
updateDecimal(actionId, reward) ==
    /\ op' = [name |-> "update", actionId |-> actionId, reward |-> reward]
    /\ ret' = Void
    /\ IF ~hasOwnProperty(qValues, actionId)
       THEN UNCHANGED <<qValues, actionCounts, totalReward, lastUpdated,
                        updates, shared>>
       ELSE /\ updates < MaxCalls
            /\ updates' = updates + 1
            /\ qValues' = SetProperty(qValues, actionId,
                                      newQDecimal(qValues.val[actionId], reward))
            /\ actionCounts' = SetProperty(actionCounts, actionId,
                                           increment(actionCounts.val[actionId]))
            /\ totalReward' = DecAdd(totalReward, reward)
            /\ lastUpdated' = Clock
            /\ shared' = FALSE
    /\ UNCHANGED <<arms, epsilon, decays, snapshot>>

RECURSIVE decimalZeroFor(_, _)
\* arms.forEach(arm => obj[arm.id] = 0), with 0 a decimal
decimalZeroFor(a, obj) ==
    IF a = <<>> THEN obj
    ELSE decimalZeroFor(Tail(a), SetProperty(obj, Head(a).id, Decimal(0)))

\* the constructor over the first NArms default offers, with decimal estimates
\* and cumulative reward
InitDecimal ==
    /\ arms = SubSeq(DEFAULT_OFFERS, 1, NArms)
    /\ qValues = decimalZeroFor(arms, EmptyObject)
    /\ actionCounts = initActionCounts(arms)
    /\ totalReward = Decimal(0)
    /\ lastUpdated = 0
    /\ epsilon = initEpsilon
    /\ op = [name |-> "constructor"]
    /\ ret = Void
    /\ updates = 0
    /\ decays = 0
    /\ snapshot = NoSnapshot
    /\ shared = FALSE
    /\ InitRoute

---------------------------------------------------------------------------
(* generateCopy of the AICopyComposer (src/lib/ai-copy-composer.ts).  A     *)
(* confidence is a JavaScript value in hundredths: a number, undefined, or  *)
(* a string.                                                                *)

NaN == [type |-> "NaN", value |-> 0]

\* the number a value becomes when >= compares it with 0.8: a number is
\* itself, the string "0.95" reads as 0.95, undefined and the string "high"
\* are NaN
ToNumber(v) ==
    CASE v.type = "number" -> v
      [] v.type = "string" /\ v.value = "0.95" -> Number(95)
      [] OTHER -> NaN

\* a slip: the threshold is tested the other way round
belowThreshold(confidence) ==
    ToNumber(confidence).type = "number"
      /\ ToNumber(confidence).value < ConfidenceThreshold
\* confidence >= 0.8 (a comparison with NaN is false)
atLeastThreshold(confidence) ==
    ToNumber(confidence).type = "number"
      /\ ToNumber(confidence).value >= ConfidenceThreshold

\* what a provider's output has in confidence
Confidences == {Number(50), Number(79), Number(80), Number(95), Undefined,
                String("high"), String("0.95")}

\* the JSON a provider's output parses to: the copy, its confidence, and
\* whatever the provider put in fallbackUsed
ParsedOutputs ==
    [headline : {"Stay with us"}, confidence : Confidences,
     fallbackUsed : BOOLEAN]

\* how a call of a provider goes: the API call rejects, the response has no
\* text, the text is not JSON, or the text parses
ProviderBehaviours ==
    [kind : {"rejects", "no text", "not JSON"}, parsed : {Null}]
      \cup [kind : {"parsed"}, parsed : ParsedOutputs]

\* generateWithClaude and generateWithGPT: { ...parsed, fallbackUsed: false },
\* or the error thrown on
generateWith(behaviour) ==
    IF behaviour.kind = "parsed"
    THEN Value([behaviour.parsed EXCEPT !.fallbackUsed = FALSE])
    ELSE Throw(behaviour.kind)

\* the arguments of generateCopy that generateFallback looks at
OfferTypes == {"discount", "pause", "swap", "extension", "upgrade"}
UserContexts ==
    [tenure : {0, 400}, sentiment : {Undefined, String("negative")},
     logins : {0, 10}]

\* this.fallbackTemplates.get(type) || this.fallbackTemplates.get('discount')
template(type) ==
    CASE type = "pause" -> "Need a break? We can pause your subscription for 30 days."
      [] type = "swap" -> "Maybe a different plan would work better? Let's find the right fit."
      [] type = "extension" -> "We'd love to give you 14 more days to explore all features."
      [] OTHER -> "We hate to see you go! How about 20% off your next 3 months?"

generateFallback(userContext, offerType) ==
    [headline |-> "We'd hate to see you go!",
     body |-> template(offerType),
     confidence |-> Number(FallbackConfidence),
     fallbackUsed |-> TRUE,
     personalizationFactors |->
       (IF userContext.tenure > 365 THEN <<"long_tenure">> ELSE <<>>)
         \o (IF userContext.sentiment = String("negative")
             THEN <<"negative_sentiment">> ELSE <<>>)
         \o (IF userContext.logins < 5 THEN <<"low_usage">> ELSE <<>>)]

NotCalled == [kind |-> "not called", value |-> 0]

\* generateCopy returns copy: the promise resolves
resolve(copy) ==
    /\ pc' = [pc EXCEPT ![Composer] = "returned"]
    /\ ret' = Value(copy)

\* generateCopy, to the await of generateWithClaude
generateCopy(userContext, offerType) ==
    /\ pc[Composer] = "idle"
    /\ pc' = [pc EXCEPT ![Composer] = "claude"]
    /\ op' = [name |-> "generateCopy", userContext |-> userContext,
              offerType |-> offerType]
    /\ ret' = Void
    /\ local' = [local EXCEPT ![Composer] =
                   [claudeResult |-> NotCalled, gptResult |-> NotCalled]]
    /\ UNCHANGED <<arms, qValues, actionCounts, totalReward, lastUpdated,
                   epsilon, updates, decays, snapshot, shared, redis,
                   offer_responses, served, otherRoutes>>

\* generateCopy, from generateWithClaude to generateWithGPT: the result is
\* returned when its confidence is at least 0.8, the catch block returns the
\* template copy when the call rejected, and GPT-4 is called otherwise
ClaudeSettles(behaviour) ==
    /\ pc[Composer] = "claude"
    /\ LET claudeResult == generateWith(behaviour) IN
       /\ local' = [local EXCEPT ![Composer].claudeResult = claudeResult]
       /\ IF claudeResult.kind = "throw"
          THEN resolve(generateFallback(op.userContext, op.offerType))
          ELSE IF atLeastThreshold(claudeResult.value.confidence)
          THEN resolve(claudeResult.value)
          ELSE /\ pc' = [pc EXCEPT ![Composer] = "gpt"]
               /\ UNCHANGED ret
    /\ UNCHANGED <<arms, qValues, actionCounts, totalReward, lastUpdated,
                   epsilon, op, updates, decays, snapshot, shared, redis,
                   offer_responses, served, otherRoutes>>

\* generateCopy, from generateWithGPT to the end
GPTSettles(behaviour) ==
    /\ pc[Composer] = "gpt"
    /\ LET gptResult == generateWith(behaviour) IN
       /\ local' = [local EXCEPT ![Composer].gptResult = gptResult]
       /\ IF gptResult.kind = "throw"
          THEN resolve(generateFallback(op.userContext, op.offerType))
          ELSE IF atLeastThreshold(gptResult.value.confidence)
          THEN resolve(gptResult.value)
          ELSE resolve(generateFallback(op.userContext, op.offerType))
    /\ UNCHANGED <<arms, qValues, actionCounts, totalReward, lastUpdated,
                   epsilon, op, updates, decays, snapshot, shared, redis,
                   offer_responses, served, otherRoutes>>

---------------------------------------------------------------------------
(* The Stripe webhook route (src/unnamed/part_005): POST and the handlers   *)
(* of the four event types, one action per run between awaits.             *)

EventTypes == {"customer.subscription.deleted", "customer.subscription.updated",
               "invoice.payment_failed", "customer.subscription.trial_will_end",
               "charge.succeeded"}

\* what the body says: the event type, of the subscription whether
\* cancel_at_period_end is true and whether canceled_at is set, of the invoice
\* whether it names a subscription
Events ==
    [type : EventTypes, cancel_at_period_end : BOOLEAN, canceled_at : BOOLEAN,
     subscription : BOOLEAN]

\* the stripe-signature header: a signature of the body under the webhook
\* secret, another string, or no header
Signatures == {"valid", "invalid", "missing"}

WebhookRequests == [signature : Signatures, event : Events]

\* a slip: the event is parsed from the body and the signature is not looked at
constructEventUnverified(request) == Value(request.event)
\* stripe.webhooks.constructEvent(body, signature, webhookSecret): the event,
\* or the error it throws when the signature does not verify
constructEvent(request) ==
    IF request.signature = "valid"
    THEN Value(request.event)
    ELSE Throw("StripeSignatureVerificationError")

\* whether the handler of the event goes on to stripe.customers.retrieve (and
\* stripe.subscriptions.retrieve), and the event_type of the row it then logs
looksUpCustomer(event) ==
    CASE event.type = "customer.subscription.deleted" -> TRUE
      [] event.type = "customer.subscription.updated" ->
           event.cancel_at_period_end /\ ~event.canceled_at
      [] event.type = "invoice.payment_failed" -> event.subscription
      [] event.type = "customer.subscription.trial_will_end" -> TRUE
      [] OTHER -> FALSE

rowType(event) ==
    CASE event.type = "customer.subscription.deleted" -> "subscription_deleted"
      [] event.type = "customer.subscription.updated" ->
           "subscription_canceled_at_period_end"
      [] event.type = "invoice.payment_failed" -> "payment_failed"
      [] OTHER -> "trial_will_end"

\* whether the handler calls triggerCancelIntent after the insert
triggers(event) ==
    CASE event.type = "customer.subscription.deleted" ->
           ~event.cancel_at_period_end
      [] event.type = "customer.subscription.updated" -> TRUE
      [] OTHER -> FALSE

webhookFrame ==
    UNCHANGED <<banditVars, redis, offer_responses, served, churn_audits>>

\* POST, to the await of request.text()
WebhookArrives(request) ==
    /\ pc[Webhook] = "idle"
    /\ pc' = [pc EXCEPT ![Webhook] = "text"]
    /\ local' = [local EXCEPT ![Webhook] = [request |-> request]]
    /\ UNCHANGED <<subscription_events, fetched>>
    /\ webhookFrame

\* POST, from request.text() to the first await of the event's handler:
\* 500 when reading the body failed, 400 when constructEvent throws, and
\* { received: true } when the handler has nothing to look up
WebhookVerifies(ok) ==
    /\ pc[Webhook] = "text"
    /\ LET event == constructEvent(local[Webhook].request) IN
       pc' = [pc EXCEPT ![Webhook] =
                IF ~ok THEN "500"
                ELSE IF event.kind = "throw" THEN "400"
                ELSE IF looksUpCustomer(event.value) THEN "retrieve"
                ELSE "200"]
    /\ UNCHANGED <<local, subscription_events, fetched>>
    /\ webhookFrame

\* the handler, from stripe.customers.retrieve to the insert into
\* subscription_events; when the lookup rejects, the handler's catch block
\* logs the error and POST answers { received: true }
WebhookRetrieves(ok) ==
    /\ pc[Webhook] = "retrieve"
    /\ pc' = [pc EXCEPT ![Webhook] = IF ok THEN "insert" ELSE "200"]
    /\ UNCHANGED <<local, subscription_events, fetched>>
    /\ webhookFrame

\* the handler, from the insert to triggerCancelIntent's fetch
WebhookInserts(outcome) ==
    /\ pc[Webhook] = "insert"
    /\ LET event == local[Webhook].request.event IN
       /\ subscription_events' =
            IF outcome = "inserted"
            THEN Append(subscription_events, [event_type |-> rowType(event)])
            ELSE subscription_events
       /\ pc' = [pc EXCEPT ![Webhook] =
                   IF outcome # "throws" /\ triggers(event)
                   THEN "fetch" ELSE "200"]
    /\ UNCHANGED <<local, fetched>>
    /\ webhookFrame

\* triggerCancelIntent: the fetch of /api/cancel-intent is sent; whatever
\* comes back, POST answers { received: true }
WebhookFetches ==
    /\ pc[Webhook] = "fetch"
    /\ fetched' = Append(fetched, [method |-> "POST", url |-> "/api/cancel-intent"])
    /\ pc' = [pc EXCEPT ![Webhook] = "200"]
    /\ UNCHANGED <<local, subscription_events>>
    /\ webhookFrame

---------------------------------------------------------------------------
(* The churn-audit route (src/app/api/churn-audit/route.ts): POST and       *)
(* processAudit, one action per run between awaits.  A row of churn_audits *)
(* is its status and its results; the id of a row is its place.            *)

\* how a supabase call ends: the statement is applied, the call resolves
\* with { error } (which processAudit never reads), or it throws
WriteOutcomes == {"applied", "error", "throws"}

NoResults == "null"
Report == "results"
ErrorMessage == "{ error }"

auditFrame ==
    UNCHANGED <<banditVars, redis, offer_responses, served,
                subscription_events, fetched>>

\* .update(columns).eq('id', auditId)
updateAudit(auditId, outcome, status, results) ==
    IF outcome = "applied"
    THEN [churn_audits EXCEPT ![auditId] = [status |-> status, results |-> results]]
    ELSE churn_audits

\* POST, to the insert of the audit record: 400 without an email
AuditPost(a, email, outcome) ==
    /\ pc[a] = "idle"
    /\ IF ~email
       THEN /\ pc' = [pc EXCEPT ![a] = "400"]
            /\ UNCHANGED <<local, churn_audits>>
       ELSE IF outcome # "applied"
       THEN /\ pc' = [pc EXCEPT ![a] = "500"]
            /\ UNCHANGED <<local, churn_audits>>
       ELSE /\ churn_audits' =
                 Append(churn_audits, [status |-> "pending", results |-> NoResults])
            /\ local' = [local EXCEPT ![a] = [auditId |-> Len(churn_audits) + 1]]
            /\ pc' = [pc EXCEPT ![a] = "created"]
    /\ auditFrame

\* POST, from the insert to its response, with processAudit up to its first
\* await: the update to 'processing'
AuditStart(a, outcome) ==
    /\ pc[a] = "created"
    /\ churn_audits' =
         updateAudit(local[a].auditId, outcome, "processing",
                     churn_audits[local[a].auditId].results)
    /\ pc' = [pc EXCEPT ![a] = IF outcome = "throws" THEN "catch" ELSE "stripe"]
    /\ UNCHANGED local
    /\ auditFrame

\* processAudit, getStripeData: the data, or the error it throws
AuditFetch(a, ok) ==
    /\ pc[a] = "stripe"
    /\ pc' = [pc EXCEPT ![a] = IF ok THEN "analysis" ELSE "catch"]
    /\ UNCHANGED <<local, churn_audits>>
    /\ auditFrame

\* processAudit, from analyzeChurnData to the update that stores the results
AuditAnalyse(a, ok, outcome) ==
    /\ pc[a] = "analysis"
    /\ IF ~ok
       THEN /\ pc' = [pc EXCEPT ![a] = "catch"]
            /\ UNCHANGED churn_audits
       ELSE /\ churn_audits' =
                 updateAudit(local[a].auditId, outcome, "completed", Report)
            /\ pc' = [pc EXCEPT ![a] =
                        IF outcome = "throws" THEN "catch" ELSE "email"]
    /\ UNCHANGED local
    /\ auditFrame

\* processAudit, sendAuditResultsEmail: it logs the email and returns
AuditEmail(a) ==
    /\ pc[a] = "email"
    /\ pc' = [pc EXCEPT ![a] = "done"]
    /\ UNCHANGED <<local, churn_audits>>
    /\ auditFrame

\* processAudit, the catch block: the update to 'failed'; when it throws, the
\* rejection goes to POST's .catch(console.error)
AuditCatch(a, outcome) ==
    /\ pc[a] = "catch"
    /\ churn_audits' =
         updateAudit(local[a].auditId, outcome, "failed", ErrorMessage)
    /\ pc' = [pc EXCEPT ![a] = "done"]
    /\ UNCHANGED local
    /\ auditFrame

---------------------------------------------------------------------------
(* The specifications. *)

\* the revenue and cost arguments callers pass to calculateReward
MrrValues == {0, 1, 2, 100}
OfferCosts == {0, 5, 10, 20, 50, 100}

Reads ==
    \/ CallSelectAction /\ NoRequest
    \/ CallGetMetrics /\ NoRequest
    \/ CallGetState /\ NoRequest
    \/ \E id \in Ids : CallCalculateReward(id, "accepted", 1, 10) /\ NoRequest

Writes ==
    \/ \E id \in Ids, reward \in Rewards : update(id, reward) /\ NoRequest
    \/ \E rate \in DecayRates : decayEpsilon(rate) /\ NoRequest

\* every call on a bandit that is constructed and then updated
NextUpdates == Reads \/ Writes

\* every call, loadState included
Next ==
    \/ NextUpdates
    \/ \E state \in Snapshots : loadState(state) /\ NoRequest

SpecUpdates == Init /\ [][NextUpdates]_vars

\* calculateReward alone, over all its arguments
NextReward ==
    \E id \in Ids, r \in Responses, m \in MrrValues, c \in OfferCosts :
      CallCalculateReward(id, r, m, c) /\ NoRequest

SpecReward == Init /\ [][NextReward]_vars

\* a bandit that is updated as PUT updates it: every reward is the one
\* calculateReward returns
\* the rewards calculateReward returns for an arm, over every response and
\* revenue and an offerCost that is the arm's own, as PUT passes it, or 0 or 1
ClampedRewards(arm) ==
    {calculateReward(arm.id, r, m, c) :
       r \in Responses, m \in MrrValues, c \in {arm.cost, 0, 100}}

NextClamped ==
    \E i \in 1..Len(arms) : \E reward \in ClampedRewards(arms[i]) :
      update(arms[i].id, reward) /\ NoRequest

SpecClamped == Init /\ [][NextClamped]_vars

Spec == Init /\ [][Next]_vars

\* a bandit and a caller that keeps and rewrites the snapshots it takes
NextSnapshot ==
    \/ Writes
    \/ CallGetState /\ NoRequest
    \/ CallGetMetrics /\ NoRequest
    \/ KeepSnapshot /\ NoRequest
    \/ SnapshotWrites /\ NoRequest

SpecSnapshot == Init /\ [][NextSnapshot]_vars

\* a bandit that is used, persisted and restored into a fresh bandit
NextRestore ==
    \/ NextUpdates
    \/ Restore /\ NoRequest

SpecRestore == Init /\ [][NextRestore]_vars

\* the exploration rates a bandit is constructed with, in hundredths, those
\* outside [0, 1] included (the constructor accepts any number), and the decay
\* rates callers pass, those outside [0, 1] included
Epsilons == {0 - 100, 0, EpsilonFloor, EpsilonDefault, 100, 200}
AnyDecayRates == {<<0 - 1, 1>>, <<0, 1>>, <<1, 2>>, <<99, 100>>, <<2, 1>>}

\* new QLearningBandit(arms, 0.1, 0.9, e / 100) for some e of E
InitEpsilon(E) ==
    /\ arms \in ArmLists
    /\ qValues = initQValues(arms)
    /\ actionCounts = initActionCounts(arms)
    /\ totalReward = 0
    /\ lastUpdated = 0
    /\ epsilon \in {e * (EpsScale \div 100) : e \in E}
    /\ op = [name |-> "constructor"]
    /\ ret = Void
    /\ updates = 0
    /\ decays = 0
    /\ snapshot = NoSnapshot
    /\ shared = FALSE
    /\ InitRoute

\* selections and decays at any rate, next to updates and loads
NextDecay ==
    \/ CallSelectAction /\ NoRequest
    \/ CallGetMetrics /\ NoRequest
    \/ \E rate \in AnyDecayRates : decayEpsilon(rate) /\ NoRequest
    \/ \E id \in Ids : update(id, Scale) /\ NoRequest
    \/ \E state \in StoredSnapshots : loadState(state) /\ NoRequest

\* from any exploration rate
SpecDecay == InitEpsilon(Epsilons) /\ [][NextDecay]_vars

\* from an exploration rate in [0, 1]
SpecDecayUnit ==
    InitEpsilon({e \in Epsilons : 0 <= e /\ e <= 100}) /\ [][NextDecay]_vars

\* a run of updates with reward 1.0, all of them on one arm
NextConverge ==
    \E id \in Ids :
      /\ \A k \in KeySet(actionCounts) \ {id} : actionCounts.val[k] = 0
      /\ updateDecimal(id, Decimal(1))
      /\ NoRequest

SpecConverge == InitDecimal /\ [][NextConverge]_vars

\* the random indexes tried for the route's bandit: the first arm and the last
FirstAndLast == {0, Len(arms) - 1}

\* the offers of the first POST
FirstOfferIds == {offerIdOf(FirstPost, userIdOf("cus_A"))}

\* the runs of a POST request p of one of the given customers
PostSteps(p, customerIds) ==
    \/ PostInvalid(p)
    \/ \E body \in PostBodies(customerIds), ok \in BOOLEAN :
         PostRateGet(p, body, ok)
    \/ \E ok \in BOOLEAN : PostIncr(p, ok)
    \/ \E tenure \in Tenures, churnRisk \in ChurnRisks, ok \in BOOLEAN :
         PostContext(p, tenure, churnRisk, ok)
    \/ \E ok \in BOOLEAN : PostFlag(p, ok)
    \/ \E shouldExplore \in BOOLEAN :
         \E randomIndex \in (IF shouldExplore THEN FirstAndLast ELSE {0}) :
           PostSelect(p, shouldExplore, randomIndex)
    \/ \E ok \in BOOLEAN : PostCache(p, ok)
    \/ PostRespond(p)

\* the runs of a PUT request r for one of the given offers
PutSteps(r, offerIds) ==
    \/ PutInvalid(r)
    \/ \E body \in PutBodies(offerIds) : PutGet(r, body)
    \/ PutUpdate(r)
    \/ \E outcome \in InsertOutcomes : PutInsert(r, outcome)
    \/ \E deleted \in BOOLEAN : PutDel(r, deleted)

\* one POST of customer A and the PUT requests for its offer (or for an offer
\* that was never issued), in any interleaving
NextCancelIntent ==
    \/ PostSteps(FirstPost, {"cus_A"})
    \/ \E r \in Puts : PutSteps(r, FirstOfferIds \cup {NeverIssued})
    \/ \E offerId \in FirstOfferIds : Expire(offerId)

SpecCancelIntent == InitCancelIntent /\ [][NextCancelIntent]_vars

\* one call of generateCopy with each behaviour of the two providers
NextCopy ==
    \/ \E userContext \in UserContexts, offerType \in OfferTypes :
         generateCopy(userContext, offerType)
    \/ \E behaviour \in ProviderBehaviours : ClaudeSettles(behaviour)
    \/ \E behaviour \in ProviderBehaviours : GPTSettles(behaviour)

SpecCopy == InitCancelIntent /\ [][NextCopy]_vars

\* concurrent POST requests of customer A in one rate-limit window, which
\* starts either fresh or after ten requests have passed the check
EarlierRequests == {0, RateLimitMax}

InitPosts ==
    \E earlier \in EarlierRequests :
      /\ arms = DEFAULT_OFFERS
      /\ qValues = initQValues(arms)
      /\ actionCounts = initActionCounts(arms)
      /\ totalReward = 0
      /\ lastUpdated = 0
      /\ epsilon = initEpsilon
      /\ op = [name |-> "constructor"]
      /\ ret = Void
      /\ updates = 0
      /\ decays = 0
      /\ snapshot = NoSnapshot
      /\ shared = FALSE
      /\ redis = [k \in RedisKeys |->
                    IF k = rateLimitKey("cus_A") /\ earlier > 0
                    THEN String(earlier) ELSE Null]
      /\ pc = [r \in Requests |-> "idle"]
      /\ local = [r \in Requests |-> IF r \in Posts \cup Puts THEN NoLocals ELSE NotStarted]
      /\ offer_responses = <<>>
      /\ served = [NoneServed EXCEPT !["cus_A"].passed = earlier]
      /\ subscription_events = <<>>
      /\ fetched = <<>>
      /\ churn_audits = NoAudits

NextPosts == \E p \in Posts : PostSteps(p, {"cus_A"})

SpecPosts == InitPosts /\ [][NextPosts]_vars

\* one request to the Stripe webhook
NextWebhook ==
    \/ \E request \in WebhookRequests : WebhookArrives(request)
    \/ \E ok \in BOOLEAN : WebhookVerifies(ok)
    \/ \E ok \in BOOLEAN : WebhookRetrieves(ok)
    \/ \E outcome \in InsertOutcomes : WebhookInserts(outcome)
    \/ WebhookFetches

SpecWebhook == InitCancelIntent /\ [][NextWebhook]_vars

\* the churn audits, in any interleaving
NextAudits ==
    \E a \in Audits :
      \/ \E email \in BOOLEAN, outcome \in WriteOutcomes : AuditPost(a, email, outcome)
      \/ \E outcome \in WriteOutcomes : AuditStart(a, outcome)
      \/ \E ok \in BOOLEAN : AuditFetch(a, ok)
      \/ \E ok \in BOOLEAN, outcome \in WriteOutcomes : AuditAnalyse(a, ok, outcome)
      \/ AuditEmail(a)
      \/ \E outcome \in WriteOutcomes : AuditCatch(a, outcome)

SpecAudits == InitCancelIntent /\ [][NextAudits]_vars

SecondPost == [method |-> "POST", n |-> 2]

\* two tenants: a POST of customer A and the PUT requests that report the
\* outcome of its offer, and a POST of customer B, in any interleaving
NextTenants ==
    \/ PostSteps(FirstPost, {"cus_A"})
    \/ PostSteps(SecondPost, {"cus_B"})
    \/ \E r \in Puts : PutSteps(r, FirstOfferIds)

SpecTenants == InitCancelIntent /\ [][NextTenants]_vars

\* the arm lists the constructor accepts: it looks at none of its arguments,
\* so the empty list is one of them
ConstructorArmLists == {<<>>} \cup ArmLists

\* new QLearningBandit(arms) for any list the constructor accepts
InitAnyArms ==
    /\ arms \in ConstructorArmLists
    /\ qValues = initQValues(arms)
    /\ actionCounts = initActionCounts(arms)
    /\ totalReward = 0
    /\ lastUpdated = 0
    /\ epsilon = initEpsilon
    /\ op = [name |-> "constructor"]
    /\ ret = Void
    /\ updates = 0
    /\ decays = 0
    /\ snapshot = NoSnapshot
    /\ shared = FALSE
    /\ InitRoute

\* a bandit constructed over any list, and then used without loadState
SpecAnyArms == InitAnyArms /\ [][NextUpdates]_vars

---------------------------------------------------------------------------
(* The claims. *)

Configured(id) == id \in ArmIds(arms)

\* C1: on a bandit that is constructed and then only updated (with known or
\* unknown ids, any reward), the keys of the value estimates, the keys of the
\* selection counts and the configured arm ids are one and the same set.
C1_KeySets ==
    /\ KeySet(qValues) = ArmIds(arms)
    /\ KeySet(actionCounts) = ArmIds(arms)

\* an update with an unknown id has returned, after updates that were applied
C1_Witness ==
    /\ op.name = "update"
    /\ ~Configured(op.actionId)
    /\ updates >= 2

C4_UnknownIdIgnored ==
    [][(op'.name = "update" /\ ~Configured(op'.actionId)) =>
         /\ ret'.kind # "throw"
         /\ UNCHANGED <<qValues, actionCounts, totalReward, lastUpdated,
                        epsilon>>]_vars

\* C5: update(A, reward) leaves the estimate and the count of every arm but A,
\* the exploration rate and the arm configuration as they were; an arm that
\* was never updated (its count is 0) has estimate exactly 0.
C5_Frame ==
    /\ [](\A k \in ArmIds(arms) :
            actionCounts.val[k] = 0 => qValues.val[k] = 0)
    /\ [][op'.name = "update" =>
            /\ epsilon' = epsilon
            /\ arms' = arms
            /\ \A k \in KeySet(qValues) \ {op'.actionId} :
                 /\ qValues'.val[k] = qValues.val[k]
                 /\ actionCounts'.val[k] = actionCounts.val[k]]_vars

\* one arm has been updated twice, to a non-zero estimate, next to an arm that
\* was never updated
C5_Witness ==
    /\ op.name = "update"
    /\ Configured(op.actionId)
    /\ actionCounts.val[op.actionId] = 2
    /\ qValues.val[op.actionId] # 0
    /\ \E k \in ArmIds(arms) \ {op.actionId} :
         actionCounts.val[k] = 0 /\ qValues.val[k] = 0

\* C6: for every arm id, every response, every revenue >= 0 and every cost in
\* [0, 1], calculateReward returns a value in [-1, 1].
C6_Bounded ==
    op.name = "calculateReward" =>
      /\ ret.kind = "value"
      /\ ret.value >= 0 - Scale
      /\ ret.value <= Scale

\* an accepted offer worth 100 a month: 89.99 before the clamp, 1.0 after
C6_Witness ==
    /\ op.name = "calculateReward"
    /\ Configured(op.actionId)
    /\ op.userResponse = "accepted"
    /\ op.mrrValue = 100
    /\ op.offerCost = 10
    /\ ret.value = Scale

\* C7: for a configured arm calculateReward equals
\* clamp(base - 0.1 * armCostFraction, -1, 1) with base
\* mrrValue * (1 - armCostFraction) for accepted, -0.1 for declined and 0 for
\* ignored, armCostFraction being the argument of the call whatever its value.
C7_RewardOfArgument ==
    (op.name = "calculateReward" /\ Configured(op.actionId)) =>
      LET base == CASE op.userResponse = "accepted" ->
                         op.mrrValue * Hundredths(100 - op.offerCost)
                    [] op.userResponse = "declined" -> 0 - Hundredths(10)
                    [] OTHER -> 0
      IN  ret.value
            = Max(0 - Scale, Min(Scale, base - Thousandths(op.offerCost)))

C9_SelectNeverFails ==
    op.name = "selectAction" =>
      /\ ret.kind = "value"
      /\ ret.value.type = "offer"
      /\ \E i \in 1..Len(arms) : ret.value.value = arms[i]

ReadOps == {"selectAction", "getMetrics", "calculateReward", "getState"}
WriteOps == {"update", "decayEpsilon", "loadState"}

\* C10: selectAction, getMetrics, calculateReward and getState leave estimates,
\* counts, cumulative reward, last-updated and exploration rate as they were:
\* a step that changes one of them is an update, a decayEpsilon or a loadState.
C10_ReadsChangeNothing ==
    [][/\ op'.name \in ReadOps =>
            UNCHANGED <<qValues, actionCounts, totalReward, lastUpdated, epsilon>>
       /\ <<qValues, actionCounts, totalReward, lastUpdated, epsilon>>'
            # <<qValues, actionCounts, totalReward, lastUpdated, epsilon>> =>
            op'.name \in WriteOps]_vars

\* getMetrics has returned on a bandit that was updated, decayed and loaded
C10_Witness ==
    /\ op.name = "getMetrics"
    /\ updates >= 1
    /\ decays >= 1
    /\ KeySet(qValues) # ArmIds(arms)

\* C11: constructing a bandit over an empty arm list fails with a
\* configuration error, so that no bandit without arms exists and selectAction
\* is never called on one.
C11_EmptyArmsRejected ==
    /\ (op.name = "constructor" /\ arms = <<>>) => ret.kind = "throw"
    /\ op.name = "selectAction" => arms # <<>>

\* C12: in every reachable state, loadState of the snapshot that getState has
\* just returned on the same bandit leaves everything getMetrics reports (total
\* selections, average reward, exploration rate, each arm's estimate, count
\* and average, last-updated) as it was before the call.
C12_RoundTrip ==
    [][(op.name = "getState" /\ op'.name = "loadState"
          /\ op'.state = ret.value) =>
         getMetrics' = getMetrics]_vars

\* the bandit's own snapshot, taken after two updates and a decay, has been
\* loaded back (no stored snapshot was last updated at time 2)
C12_Witness ==
    /\ op.name = "loadState"
    /\ op.state.lastUpdated = 2
    /\ op.state.totalReward # 0
    /\ decays >= 1
    /\ getMetrics.totalActions = 2

SnapshotWriteOps ==
    {"snapshot.qValues", "snapshot.actionCounts", "snapshot.totalReward",
     "snapshot.lastUpdated.setTime"}

\* C13: the snapshot getState returned is independent of the bandit: whatever
\* a caller writes to a field of the snapshot (an estimate, a count, the
\* cumulative reward, the time of the last-updated object) leaves the bandit's
\* estimates, counts, cumulative reward and last-updated time as they were,
\* and an update on the bandit leaves a snapshot the caller holds as it was.
C13_SnapshotIndependent ==
    [][/\ op'.name \in SnapshotWriteOps =>
            UNCHANGED <<qValues, actionCounts, totalReward, lastUpdated>>
       /\ (op'.name = "update" /\ snapshot # NoSnapshot) =>
            snapshot' = snapshot]_vars

\* C14: the snapshot carries the exploration rate: a bandit freshly constructed
\* over the same arms and given loadState of another bandit's getState()
\* reports the same getMetrics() as that bandit, exploration rate included,
\* also when decayEpsilon was called before the snapshot was taken.
C14_RestoreKeepsMetrics ==
    [][op'.name = "restore" => getMetrics' = getMetrics]_vars

\* C15: loadState(s) sets the estimates, the counts, the cumulative reward and
\* last-updated to exactly those of s, whatever keys s has (it throws nothing
\* and checks s against the configured arms in no way), and leaves the arm
\* list and the exploration rate as they were (the learning rate is a fixed
\* number of the model); a step in which a count gets lower or goes away is a
\* loadState.
C15_LoadReplaces ==
    [][/\ op'.name = "loadState" =>
            /\ ret'.kind # "throw"
            /\ qValues' = op'.state.qValues
            /\ actionCounts' = op'.state.actionCounts
            /\ totalReward' = op'.state.totalReward
            /\ lastUpdated' = op'.state.lastUpdated
            /\ arms' = arms
            /\ epsilon' = epsilon
       /\ (\E k \in KeySet(actionCounts) :
             \/ k \notin KeySet(actionCounts')
             \/ actionCounts'.val[k] < actionCounts.val[k]) =>
            op'.name = "loadState"]_vars

\* after updates and a decay, loadState has taken over a snapshot whose keys
\* are not the configured arms and whose counts are all 0
C15_Witness ==
    /\ op.name = "loadState"
    /\ updates >= 2
    /\ decays >= 1
    /\ epsilon # initEpsilon
    /\ KeySet(actionCounts) # ArmIds(arms)
    /\ SumSeq(actionCounts, 1) = 0

\* C16: once decayEpsilon has been called, with whatever rate and from
\* whatever exploration rate, the exploration rate is at least 0.01 and stays
\* so: the exploration branch of selectAction is possible, and it returns
\* each configured arm for some random index.
C16_Floor ==
    decays >= 1 =>
      /\ 100 * epsilon >= EpsilonFloor * EpsScale
      /\ CanExplore
      /\ \A i \in 1..Len(arms) :
           /\ i - 1 \in RandomIndexes
           /\ selectAction(TRUE, i - 1) = Value(Offer(arms[i]))

\* a bandit constructed with exploration rate 0 has been decayed to the floor
\* and has then explored its second arm
C16_Witness ==
    /\ decays >= 1
    /\ 100 * epsilon = EpsilonFloor * EpsScale
    /\ op.name = "selectAction"
    /\ op.shouldExplore
    /\ Len(arms) >= 2
    /\ ret = Value(Offer(arms[2]))

\* C17: the exploration rate of a bandit constructed with an exploration rate
\* in [0, 1] is in [0, 1] in every reachable state, whatever decay rates are
\* passed to decayEpsilon.
C17_UnitInterval ==
    /\ 0 <= epsilon
    /\ epsilon <= EpsScale

RECURSIVE SumOfArms(_)
\* the counts of the configured arms from the i-th on, added up
SumOfArms(i) ==
    IF i > Len(arms) THEN 0 ELSE actionCounts.val[arms[i].id] + SumOfArms(i + 1)

\* both mappings have the configured arm ids as their keys
WellFormed ==
    /\ KeySet(qValues) = ArmIds(arms)
    /\ KeySet(actionCounts) = ArmIds(arms)

\* C18: what getMetrics returns.  In every reachable state each ratio it
\* reports has a denominator that is not 0 and the call throws nothing.  On a
\* bandit whose mappings have the configured arms as keys, total selections
\* is the sum of the arms' counts, the overall average is cumulative reward
\* over total selections (0 when there are none), and each arm's average is
\* its estimate over its count (0 when the count is 0).  (n/d is the ratio
\* x/y when n * y = x * d.)
C18_Metrics ==
    op.name = "getMetrics" =>
      LET m == ret.value IN
      /\ ret.kind = "value"
      /\ m.avgReward.den > 0
      /\ \A i \in 1..Len(m.armPerformance) :
           m.armPerformance[i].avgReward.den > 0
      /\ WellFormed =>
           /\ m.totalActions = SumOfArms(1)
           /\ IF m.totalActions = 0
              THEN m.avgReward.num = 0
              ELSE m.avgReward.num * m.totalActions
                     = totalReward * m.avgReward.den
           /\ Len(m.armPerformance) = Len(arms)
           /\ \A i \in 1..Len(arms) :
                LET p == m.armPerformance[i]
                    c == actionCounts.val[arms[i].id]
                    q == qValues.val[arms[i].id]
                IN  /\ p.id = arms[i].id
                    /\ p.qValue = Number(q)
                    /\ p.count = Number(c)
                    /\ IF c = 0
                       THEN p.avgReward.num = 0
                       ELSE p.avgReward.num * c = q * p.avgReward.den

\* getMetrics has returned on a bandit with an arm that was updated twice, to
\* an estimate that is not 0, and an arm that was never updated
C18_Witness ==
    /\ op.name = "getMetrics"
    /\ WellFormed
    /\ ret.value.totalActions = 2
    /\ ret.value.avgReward.num # 0
    /\ \E i, j \in 1..Len(arms) :
         /\ actionCounts.val[arms[i].id] = 2
         /\ ret.value.armPerformance[i].avgReward.num # 0
         /\ actionCounts.val[arms[j].id] = 0
         /\ ret.value.armPerformance[j].avgReward.num = 0

\* C19: from a fresh bandit with alpha = 0.1, in a run of calls update(A, 1.0)
\* with no other update, each call takes arm A's distance from 1.0 to 0.9
\* times what it was (so after n calls the estimate is 1 - 0.9^n) and the
\* estimate goes up; the estimate never exceeds 1.0; after 1,000 calls it is
\* within 1e-6 of 1.0; every other arm's estimate is exactly 0.
C19_Converges ==
    /\ [](\A k \in KeySet(qValues) :
            /\ DecLeq(qValues.val[k], Decimal(1))
            /\ actionCounts.val[k] = 0 => qValues.val[k] = Decimal(0)
            /\ actionCounts.val[k] >= 1000 =>
                 DecLeq(DecSub(Decimal(1), qValues.val[k]),
                        [units |-> <<1>>, places |-> 6]))
    /\ [][(op'.name = "update" /\ Configured(op'.actionId)) =>
            \A old \in {qValues.val[op'.actionId]},
               new \in {qValues'.val[op'.actionId]} :
              /\ \A gap \in {DecSub(Decimal(1), old)} :
                   \A less \in {[units |-> BigTimes(gap.units, 9),
                                  places |-> gap.places + 1]} :
                     DecEq(DecSub(Decimal(1), new), less)
              /\ DecLess(old, new)]_vars

\* one arm of two has been updated 1,000 times
C19_Witness ==
    /\ op.name = "update"
    /\ Len(arms) >= 2
    /\ \E k, j \in KeySet(qValues) :
         /\ actionCounts.val[k] = 1000
         /\ ~DecIsZero(qValues.val[k])
         /\ actionCounts.val[j] = 0

\* C20: for the offer that POST /api/cancel-intent issued, under every
\* interleaving of the PUT requests for it (duplicates, retries, concurrent
\* deliveries, a failing insert of the response), bandit.update is applied at
\* most once.
C20_UpdatedOnce == updates <= 1

\* the step is the run of a PUT request r that calls bandit.update for the
\* arm id with its reward: the count of id grows by one, the estimate of id
\* becomes old + alpha * (reward - old) for the estimate old the bandit held
\* just before (both sides times AlphaDen), nothing else in the two objects
\* changes
AppliesOnTop(r, id) ==
    /\ pc[r] = "got" /\ pc'[r] = "insert"
    /\ id = local[r].offerData.value.offer.id
    /\ hasOwnProperty(qValues, id)
    /\ qValues'.keys = qValues.keys /\ actionCounts'.keys = actionCounts.keys
    /\ AlphaDen * qValues'.val[id]
         = AlphaDen * qValues.val[id]
             + AlphaNum * (local'[r].reward - qValues.val[id])
    /\ actionCounts'.val[id] = actionCounts.val[id] + 1
    /\ \A k \in KeySet(qValues) \ {id} :
         /\ qValues'.val[k] = qValues.val[k]
         /\ actionCounts'.val[k] = actionCounts.val[k]
    /\ totalReward' = totalReward + local'[r].reward
    /\ updates' = updates + 1

\* C21: under every interleaving of the POST and PUT handlers of one process
\* no update is lost: every step either leaves the estimates and counts alone
\* or is one PUT's update applied on top of the state the update before it
\* left, so that after k updates the counts have grown by k and the estimate
\* is the k updates applied one after another.
C21_NoLostUpdate ==
    /\ [](SumSeq(actionCounts, 1) = updates)
    /\ [][\/ UNCHANGED <<qValues, actionCounts, totalReward, updates>>
          \/ \E r \in Puts, id \in ArmIds(arms) : AppliesOnTop(r, id)]_vars

\* two PUT requests have updated one arm while the POST is still in flight
C21_Witness ==
    /\ pc[FirstPost] = "cached"
    /\ \E id \in ArmIds(arms) : actionCounts.val[id] = 2
    /\ \E r \in Puts : pc[r] = "insert"

\* the arm has never been updated, as getMetrics reports it
Untried(entry) ==
    /\ entry.count = Number(0)
    /\ entry.qValue = Number(0)
    /\ entry.avgReward = Quotient(0, 1)

\* C22: outcomes reported for the offers of customer A change nothing of what
\* customer B gets.  No outcome is reported for an offer of B here, so the
\* banditMetrics in the response to B's POST are those of a bandit no outcome
\* has reached, as they are in the run without A's requests.
C22_TenantIsolation ==
    [][\A p \in Posts :
         (/\ pc[p] = "cached" /\ pc'[p] = "offer"
          /\ local[p].body.customerId = "cus_B")
         => /\ ret'.value.totalActions = 0
            /\ ret'.value.avgReward = Quotient(0, 1)
            /\ \A i \in 1..Len(arms) : Untried(ret'.value.armPerformance[i])]_vars

\* C23: a PUT with response 'accepted' for an offer that POST issued for a
\* request with mrr = m applies the reward clamp(m * (1 - cost) - 0.1 * cost)
\* to the bandit, cost being the cost of the offered arm.
C23_RewardCarriesMrr ==
    [][\A r \in Puts :
         (/\ pc[r] = "got" /\ pc'[r] = "insert"
          /\ local[r].body.response = "accepted")
         => LET entry == local[r].offerData.value
                m == served[entry.customerId].mrr
                cost == entry.offer.cost
            IN  /\ op'.name = "update"
                /\ op'.reward
                     = clamp(m * Hundredths(100 - cost) - Thousandths(cost))]_vars

\* the confidence is 0.8 or more, as a number or as the digits of one
AtLeastPoint8(confidence) ==
    \/ confidence.type = "number" /\ confidence.value >= 80
    \/ confidence = String("0.95")

\* the provider resolved with a copy whose confidence is 0.8 or more
Confident(result) ==
    result.kind = "value" /\ AtLeastPoint8(result.value.confidence)

\* C24: generateCopy never fails, whatever the two providers do: it resolves
\* to a copy; Claude is called first, and GPT-4 exactly when Claude resolved
\* with a confidence that is not 0.8 or more; a copy with fallbackUsed = false
\* is the copy of a provider whose confidence is at least 0.8, and in every
\* other case the template copy with fallbackUsed = true and confidence 0.6
\* is returned.
C24_CopyNeverFails ==
    /\ pc[Composer] \in {"idle", "claude", "gpt", "returned"}
    /\ pc[Composer] = "gpt" =>
         /\ local[Composer].claudeResult.kind = "value"
         /\ ~AtLeastPoint8(local[Composer].claudeResult.value.confidence)
    /\ pc[Composer] = "returned" =>
         LET claudeResult == local[Composer].claudeResult
             gptResult == local[Composer].gptResult
         IN  /\ ret.kind = "value"
             /\ claudeResult.kind # "not called"
             /\ gptResult.kind # "not called" <=>
                  /\ claudeResult.kind = "value"
                  /\ ~AtLeastPoint8(claudeResult.value.confidence)
             /\ IF Confident(claudeResult)
                THEN ret.value = claudeResult.value /\ ~ret.value.fallbackUsed
                ELSE IF Confident(gptResult)
                THEN ret.value = gptResult.value /\ ~ret.value.fallbackUsed
                ELSE /\ ret.value.fallbackUsed
                     /\ ret.value.confidence = Number(60)
                     /\ ret.value.body = template(op.offerType)

\* Claude's copy had a low confidence and GPT-4's output was malformed: the
\* template copy came back
C24_Witness ==
    /\ pc[Composer] = "returned"
    /\ local[Composer].claudeResult.kind = "value"
    /\ local[Composer].gptResult.kind = "throw"
    /\ ret.value.fallbackUsed

\* the request's signature does not verify
Unverified == local[Webhook].request.signature # "valid"

\* C25: a request to the Stripe webhook whose signature does not verify is
\* answered 400 and no handler runs for it: no row is inserted into
\* subscription_events and the cancel-intent API is not called.
C25_VerifiedFirst ==
    /\ [](pc[Webhook] # "idle" /\ Unverified =>
            /\ pc[Webhook] \in {"text", "400", "500"}
            /\ subscription_events = <<>>
            /\ fetched = <<>>)
    /\ [][pc[Webhook] = "text" /\ pc'[Webhook] # "500" /\ Unverified =>
            pc'[Webhook] = "400"]_vars

\* a request with a bad signature has been answered 400
C25_Witness ==
    /\ pc[Webhook] = "400"
    /\ local[Webhook].request.signature = "invalid"
    /\ local[Webhook].request.event.type = "customer.subscription.deleted"

\* C26: within one rate-limit window, under any interleaving of concurrent
\* POST requests of one customer, at most 11 requests pass the rate-limit
\* check.
C26_AtMostEleven ==
    \A c \in Customers : served[c].passed <= RateLimitMax + 1

\* C27: under any interleaving of concurrent POST requests of one customer, at
\* most one of them answers with status 'offer' while the recent-offer flag is
\* live.
C27_OneOffer ==
    \A c \in Customers :
      redis[recentOfferKey(c)] # Null => served[c].offers <= 1

\* the bandit's learned state and the offer_responses table
learned == <<qValues, actionCounts, totalReward, updates, epsilon, offer_responses>>

\* the cache holds an entry under the key
live(key) == key \in DOMAIN redis /\ redis[key] # Null

\* C28: a PUT that lacks a field answers 400, and a PUT whose offer has no
\* live cache entry when it is looked up (never issued, expired, or deleted by
\* a completed PUT) answers 404; neither changes the bandit's state nor writes
\* an offer_responses row, and no row is ever written for an offer that was
\* never issued.
C28_RejectedPutChangesNothing ==
    /\ [](\A i \in 1..Len(offer_responses) :
            offer_responses[i].offer_id # NeverIssued)
    /\ [][\A r \in Puts :
            /\ pc[r] = "idle" /\ pc'[r] = "400" => UNCHANGED learned
            /\ pc[r] = "idle" /\ pc'[r] = "got"
                 /\ ~live("offer:" \o local'[r].body.offerId)
                 => local'[r].offerData = Null
            /\ pc[r] = "got" /\ pc'[r] # "got" /\ local[r].offerData = Null
                 => pc'[r] = "404" /\ UNCHANGED learned
            /\ pc[r] \in {"400", "404"} => pc'[r] = pc[r]]_vars

\* a PUT has been answered 404 for an offer that an earlier PUT consumed
C28_Witness ==
    \E r, done \in Puts :
      /\ pc[r] = "404"
      /\ pc[done] = "200"
      /\ updates = 1
      /\ Len(offer_responses) = 1

\* C29: when every update receives a reward in [-1, 1], as calculateReward
\* produces, every arm's estimate stays in [-1, 1], and after each update the
\* new estimate of the updated arm lies between its old estimate and the
\* reward.
C29_EstimatesBounded ==
    /\ [](\A id \in ArmIds(arms) :
            0 - Scale <= qValues.val[id] /\ qValues.val[id] <= Scale)
    /\ [][updates' = updates + 1 =>
            LET id == op'.actionId
                reward == op'.reward
                oldQ == qValues.val[id]
                newer == qValues'.val[id]
            IN  /\ 0 - Scale <= reward /\ reward <= Scale
                /\ IF oldQ <= reward
                   THEN oldQ <= newer /\ newer <= reward
                   ELSE reward <= newer /\ newer <= oldQ]_vars

\* an estimate has moved up towards a reward of 1 and then down towards a
\* negative reward
C29_Witness ==
    /\ updates = 2
    /\ op.name = "update"
    /\ op.reward < 0
    /\ \E id \in ArmIds(arms) :
         /\ op.actionId = id
         /\ actionCounts.val[id] = 2
         /\ qValues.val[id] > 0 - Scale \div 10
         /\ qValues.val[id] < Scale \div 10
         /\ qValues.val[id] # 0
         /\ totalReward - op.reward = Scale

\* the statuses a row may move to from a status
Forward(status) ==
    CASE status = "pending" -> {"processing", "completed", "failed"}
      [] status = "processing" -> {"completed", "failed"}
      [] OTHER -> {}

\* C30: a churn audit's status only moves forward along pending ->
\* processing -> completed or failed; an audit marked completed is never later
\* marked failed nor has its results overwritten; and every audit whose
\* processing started ends in completed or failed.
C30_StatusForward ==
    /\ [](\A a \in Audits :
            pc[a] = "done" =>
              churn_audits[local[a].auditId].status \in {"completed", "failed"})
    /\ [][\A i \in 1..Len(churn_audits) :
            /\ churn_audits'[i].status # churn_audits[i].status =>
                 churn_audits'[i].status \in Forward(churn_audits[i].status)
            /\ churn_audits[i].status = "completed" =>
                 churn_audits'[i] = churn_audits[i]]_vars

====
